---------------------------- MODULE Spec2Model ----------------------------
(***************************************************************************)
(* Model of crates/git-conventional-commit-rules/src/lib.rs: the validated *)
(* value types of a conventional commit message, the subject assembler,    *)
(* the message composer and the message validator.                         *)
(*                                                                         *)
(* A Rust &str is a sequence of characters; a character is a one-character *)
(* TLA+ string, except EAcute which stands for a character whose UTF-8     *)
(* encoding takes two bytes.  str::len counts bytes, not characters.       *)
(***************************************************************************)
EXTENDS Integers, Sequences, FiniteSets, TLC

VARIABLES pc, input, value, result

vars == <<pc, input, value, result>>

-----------------------------------------------------------------------------
(* Characters and the str methods the crate uses.                          *)

EAcute == "U+00E9"

len_utf8(c) == IF c = EAcute THEN 2 ELSE 1

White_Space == {" ", "\t", "\n", "\r"}

\* str::len: the length in bytes
str_len(s) == Len(s) + Cardinality({i \in DOMAIN s : len_utf8(s[i]) = 2})

is_empty(s) == Len(s) = 0

Min(S) == CHOOSE x \in S : \A y \in S : x <= y

Max(S) == CHOOSE x \in S : \A y \in S : y <= x

\* the places of the characters of s that are not whitespace
non_whitespace(s) == {i \in DOMAIN s : s[i] \notin White_Space}

trim_start(s) ==
    IF non_whitespace(s) = {} THEN <<>>
    ELSE SubSeq(s, CHOOSE i \in DOMAIN s :
                       s[i] \notin White_Space
                       /\ \A j \in 1..(i - 1) : s[j] \in White_Space,
                Len(s))

trim_end(s) ==
    IF non_whitespace(s) = {} THEN <<>>
    ELSE SubSeq(s, 1, CHOOSE i \in DOMAIN s :
                          s[i] \notin White_Space
                          /\ \A j \in (i + 1)..Len(s) : s[j] \in White_Space)

trim(s) == trim_end(trim_start(s))

contains(s, c) == \E i \in DOMAIN s : s[i] = c

starts_with(s, pat) == Len(pat) <= Len(s) /\ SubSeq(s, 1, Len(pat)) = pat

ends_with(s, pat) ==
    Len(pat) <= Len(s) /\ SubSeq(s, Len(s) - Len(pat) + 1, Len(s)) = pat

\* Option<T>
None == [some |-> FALSE]

Some(v) == [some |-> TRUE, v |-> v]

\* str::strip_prefix(..).unwrap_or(dflt)
strip_prefix_or(s, pat, dflt) ==
    IF starts_with(s, pat) THEN SubSeq(s, Len(pat) + 1, Len(s)) ELSE dflt

\* str::strip_suffix(..).unwrap_or(dflt)
strip_suffix_or(s, pat, dflt) ==
    IF ends_with(s, pat) THEN SubSeq(s, 1, Len(s) - Len(pat)) ELSE dflt

\* the places where pat occurs in s
occurrences(s, pat) ==
    {i \in 1..(Len(s) - Len(pat) + 1) : SubSeq(s, i, i + Len(pat) - 1) = pat}

\* str::find
find(s, pat) ==
    IF occurrences(s, pat) = {} THEN None ELSE Some(Min(occurrences(s, pat)))

\* str::split_once: the text before and after the first occurrence of pat
split_once(s, pat) ==
    LET at == find(s, pat)
    IN  IF ~at.some THEN None
        ELSE Some(<<SubSeq(s, 1, at.v - 1), SubSeq(s, at.v + Len(pat), Len(s))>>)

\* str::replace(pat, ""): the non-overlapping occurrences, left to right
RECURSIVE replace_with_empty(_, _)
replace_with_empty(s, pat) ==
    IF Len(s) < Len(pat) \/ Len(pat) = 0 THEN s
    ELSE IF starts_with(s, pat)
         THEN replace_with_empty(SubSeq(s, Len(pat) + 1, Len(s)), pat)
         ELSE <<s[1]>> \o replace_with_empty(Tail(s), pat)

\* the elements of a finite set of numbers in increasing order
RECURSIVE sorted(_)
sorted(S) == IF S = {} THEN <<>> ELSE <<Min(S)>> \o sorted(S \ {Min(S)})

\* str::lines: split after every "\n"; a line loses its "\n" and then a "\r"
\* before it; the text after the last "\n" is a line unless it is empty
RECURSIVE lines(_)
lines(s) ==
    LET nl == {i \in DOMAIN s : s[i] = "\n"}
    IN  IF Len(s) = 0 THEN <<>>
        ELSE IF nl = {} THEN <<s>>
        ELSE LET e    == Min(nl)
                 line == IF e > 1 /\ s[e - 1] = "\r"
                         THEN SubSeq(s, 1, e - 2)
                         ELSE SubSeq(s, 1, e - 1)
             IN  <<line>> \o lines(SubSeq(s, e + 1, Len(s)))

\* [&str]::join
RECURSIVE join(_, _)
join(parts, sep) ==
    IF Len(parts) = 0 THEN <<>>
    ELSE IF Len(parts) = 1 THEN parts[1]
    ELSE parts[1] \o sep \o join(Tail(parts), sep)

\* str::split_whitespace: the maximal runs of non-whitespace characters
RECURSIVE split_whitespace(_)
split_whitespace(s) ==
    LET rest == trim_start(s)
        stop == {i \in DOMAIN rest : rest[i] \in White_Space}
    IN  IF Len(rest) = 0 THEN <<>>
        ELSE IF stop = {} THEN <<rest>>
        ELSE <<SubSeq(rest, 1, Min(stop) - 1)>>
                 \o split_whitespace(SubSeq(rest, Min(stop), Len(rest)))

\* Result<T, ValidationError>
Ok(v) == [tag |-> "Ok", v |-> v]

Err(e) == [tag |-> "Err", e |-> e]

is_ok(r) == r.tag = "Ok"

is_err(r) == r.tag = "Err"

\* ValidationError without fields
E(kind) == [kind |-> kind]


-----------------------------------------------------------------------------
(* The constants and the commit type.                                      *)

SUBJECT_MAX_LEN == 50

BODY_LINE_MAX_LEN == 72

\* enum CommitType, in declaration order
CommitType ==
    <<"Fix", "Feat", "Docs", "Style", "Refactor", "Perf", "Test", "Build", "Chore", "Ci", "Revert">>

\* CommitType::as_str
as_str(commit_type) ==
    CASE commit_type = "Fix" -> <<"f", "i", "x">>
      [] commit_type = "Feat" -> <<"f", "e", "a", "t">>
      [] commit_type = "Docs" -> <<"d", "o", "c", "s">>
      [] commit_type = "Style" -> <<"s", "t", "y", "l", "e">>
      [] commit_type = "Refactor" -> <<"r", "e", "f", "a", "c", "t", "o", "r">>
      [] commit_type = "Perf" -> <<"p", "e", "r", "f">>
      [] commit_type = "Test" -> <<"t", "e", "s", "t">>
      [] commit_type = "Build" -> <<"b", "u", "i", "l", "d">>
      [] commit_type = "Chore" -> <<"c", "h", "o", "r", "e">>
      [] commit_type = "Ci" -> <<"c", "i">>
      [] commit_type = "Revert" -> <<"r", "e", "v", "e", "r", "t">>

\* CommitType::allowed_list: the names joined by one space
allowed_list ==
    join([k \in DOMAIN CommitType |-> as_str(CommitType[k])], <<" ">>)

\* <CommitType as FromStr>::from_str
CommitType_from_str(raw) ==
    LET other == trim(raw)
        hit   == {k \in DOMAIN CommitType : as_str(CommitType[k]) = other}
    IN  IF hit # {} THEN Ok(CommitType[CHOOSE k \in hit : TRUE])
        ELSE Err([kind |-> "CommitTypeInvalid", raw |-> other,
                  allowed |-> allowed_list])

-----------------------------------------------------------------------------
(* The validated value types.  A value is the text it wraps.               *)

\* CommitSummary::from_str keeping the trimmed text as it is
CommitSummary_from_str_uncollapsed(raw_summary) ==
    LET trimmed == trim(raw_summary)
    IN  IF is_empty(trimmed) THEN Err(E("SummaryEmpty"))
        ELSE IF contains(trimmed, "\n") \/ contains(trimmed, "\r")
             THEN Err(E("SummaryMultiline"))
        ELSE IF ends_with(trimmed, <<".">>) THEN Err(E("SummaryEndsWithPeriod"))
        ELSE Ok(trimmed)

\* <CommitSummary as FromStr>::from_str
CommitSummary_from_str(raw_summary) ==
    LET trimmed == trim(raw_summary)
        summary == join(split_whitespace(trimmed), <<" ">>)
    IN  IF is_empty(trimmed) THEN Err(E("SummaryEmpty"))
        ELSE IF contains(trimmed, "\n") \/ contains(trimmed, "\r")
             THEN Err(E("SummaryMultiline"))
        ELSE IF ends_with(summary, <<".">>) THEN Err(E("SummaryEndsWithPeriod"))
        ELSE Ok(summary)

\* <CommitScope as FromStr>::from_str
CommitScope_from_str(raw_scope) ==
    LET scope == trim(raw_scope)
    IN  IF is_empty(scope) THEN Err(E("ScopeEmpty"))
        ELSE IF contains(scope, "\n") \/ contains(scope, "\r")
             THEN Err(E("ScopeMultiline"))
        ELSE IF contains(scope, ")") THEN Err(E("ScopeHasClosingParen"))
        ELSE Ok(scope)

\* the length the body check measures a line by: str::len
body_line_len(line) == str_len(line)

\* <CommitBody as FromStr>::from_str
CommitBody_from_str(raw_body) ==
    LET body == trim(raw_body)
        ls   == lines(body)
        long == {k \in DOMAIN ls : ~is_empty(ls[k])
                                   /\ body_line_len(ls[k]) > BODY_LINE_MAX_LEN}
    IN  IF is_empty(body) THEN Err(E("BodyEmpty"))
        ELSE IF long # {}
             THEN Err([kind |-> "BodyLineTooLong",
                       len  |-> body_line_len(ls[Min(long)]),
                       line |-> ls[Min(long)]])
        ELSE Ok(body)

\* <BreakingNote as FromStr>::from_str
BreakingNote_from_str(raw_note) ==
    LET note == trim(raw_note)
    IN  IF is_empty(note) THEN Err(E("BreakingNoteEmpty"))
        ELSE IF contains(note, "\n") \/ contains(note, "\r")
             THEN Err(E("BreakingNoteMultiline"))
        ELSE Ok(note)

-----------------------------------------------------------------------------
(* The subject assembler and the message composer.                         *)

\* usize::saturating_sub
saturating_sub(a, b) == IF a >= b THEN a - b ELSE 0

\* the text CommitSubject::new formats
format_subject(commit_type, scope, summary, breaking_note) ==
    LET bang == IF breaking_note.some THEN <<"!">> ELSE <<>>
    IN  IF scope.some
        THEN as_str(commit_type) \o <<"(">> \o scope.v \o <<")">> \o bang
                 \o <<":", " ">> \o summary
        ELSE as_str(commit_type) \o bang \o <<":", " ">> \o summary

\* the SubjectTooLong error of a subject and the summary in it
SubjectTooLong(subject, summary) ==
    LET prefix_without_summary == replace_with_empty(subject, summary)
        budget == saturating_sub(SUBJECT_MAX_LEN, str_len(prefix_without_summary))
    IN  [kind |-> "SubjectTooLong", len |-> str_len(subject),
         budget |-> budget, subject |-> subject]

\* CommitSubject::new refusing a subject of exactly the limit
CommitSubject_new_off_by_one(commit_type, scope, summary, breaking_note) ==
    LET subject == format_subject(commit_type, scope, summary, breaking_note)
    IN  IF str_len(subject) >= SUBJECT_MAX_LEN
        THEN Err(SubjectTooLong(subject, summary))
        ELSE Ok(subject)

\* CommitSubject::new
CommitSubject_new(commit_type, scope, summary, breaking_note) ==
    LET subject == format_subject(commit_type, scope, summary, breaking_note)
    IN  IF str_len(subject) > SUBJECT_MAX_LEN
        THEN Err(SubjectTooLong(subject, summary))
        ELSE Ok(subject)

BREAKING_CHANGE == <<"B", "R", "E", "A", "K", "I", "N", "G", " ", "C", "H", "A", "N", "G", "E", ":">>

\* new_commit_message
new_commit_message(subject, body, breaking_note) ==
    LET body_parts == IF body.some THEN <<<<>>, body.v>> ELSE <<>>
        note_parts == IF breaking_note.some
                      THEN <<<<>>, BREAKING_CHANGE \o <<" ">> \o breaking_note.v>>
                      ELSE <<>>
    IN  join(<<subject>> \o body_parts \o note_parts, <<"\n">>)

-----------------------------------------------------------------------------
(* The message validator.                                                  *)

\* is_autosquash_subject knowing fixup! only
is_autosquash_subject_fixup_only(subject) ==
    starts_with(subject, <<"f", "i", "x", "u", "p", "!", " ">>)

\* is_autosquash_subject
is_autosquash_subject(subject) ==
    \/ starts_with(subject, <<"f", "i", "x", "u", "p", "!", " ">>)
    \/ starts_with(subject, <<"s", "q", "u", "a", "s", "h", "!", " ">>)
    \/ starts_with(subject, <<"a", "m", "e", "n", "d", "!", " ">>)

InvalidFormat(subject) ==
    Err([kind |-> "MessageSubjectInvalidFormat", subject |-> subject])

\* parse_subject_line, from the prefix without its bang on: the type and scope
parse_type_and_scope(subject, prefix) ==
    IF ends_with(prefix, <<")">>)
    THEN LET open == find(prefix, <<"(">>)
         IN  IF ~open.some THEN InvalidFormat(subject)
             ELSE LET raw_type  == trim(SubSeq(prefix, 1, open.v - 1))
                      raw_scope == SubSeq(prefix, open.v + 1, Len(prefix) - 1)
                      parsed    == CommitType_from_str(raw_type)
                  IN  IF is_empty(raw_type) THEN InvalidFormat(subject)
                      ELSE IF is_err(parsed) THEN parsed
                      ELSE Ok([commit_type |-> parsed.v, scope |-> Some(raw_scope)])
    ELSE LET parsed == CommitType_from_str(prefix)
         IN  IF is_err(parsed) THEN parsed
             ELSE Ok([commit_type |-> parsed.v, scope |-> None])

\* parse_subject_line
parse_subject_line(subject) ==
    LET split == split_once(subject, <<":", " ">>)
    IN  IF ~split.some THEN InvalidFormat(subject)
        ELSE
        LET type_scope_bang == split.v[1]
            summary_raw     == split.v[2]
            prefix0         == trim(type_scope_bang)
            has_bang        == ends_with(prefix0, <<"!">>)
            prefix          == IF has_bang
                               THEN trim_end(strip_suffix_or(prefix0, <<"!">>, prefix0))
                               ELSE prefix0
        IN  IF is_empty(prefix0) THEN InvalidFormat(subject)
            ELSE IF has_bang /\ is_empty(prefix) THEN InvalidFormat(subject)
            ELSE
            LET ts      == parse_type_and_scope(subject, prefix)
                summary == CommitSummary_from_str(summary_raw)
            IN  IF is_err(ts) THEN ts
                ELSE IF is_err(summary) THEN summary
                ELSE Ok([commit_type |-> ts.v.commit_type, scope |-> ts.v.scope,
                         summary |-> summary.v, has_bang |-> has_bang])

\* validate_subject_length
validate_subject_length(subject, summary) ==
    IF str_len(subject) <= SUBJECT_MAX_LEN THEN Ok(<<>>)
    ELSE Err(SubjectTooLong(subject, summary))

\* whether a content line is a BREAKING CHANGE footer line
is_breaking_line(line) == starts_with(trim_start(line), BREAKING_CHANGE)

\* split_body_and_breaking_footer taking any line before the footer
split_body_and_breaking_footer_unseparated(content) ==
    LET breaking_indices == {idx \in DOMAIN content : is_breaking_line(content[idx])}
        line     == trim_end(IF Len(content) = 0 THEN <<>> ELSE content[Len(content)])
        note_raw == strip_prefix_or(trim_start(line), BREAKING_CHANGE, <<>>)
        note     == trim(strip_prefix_or(note_raw, <<" ">>, note_raw))
    IN  IF breaking_indices = {} THEN Ok([body_lines |-> content, breaking_note |-> None])
        ELSE IF Cardinality(breaking_indices) # 1 \/ breaking_indices # {Len(content)}
             THEN Err(E("MessageBreakingFooterNotLast"))
        ELSE IF is_empty(note) THEN Err(E("BreakingNoteEmpty"))
        ELSE IF Len(content) = 1
             THEN Ok([body_lines |-> <<>>, breaking_note |-> Some(note)])
        ELSE Ok([body_lines |-> SubSeq(content, 1, Len(content) - 2),
                 breaking_note |-> Some(note)])

\* split_body_and_breaking_footer
split_body_and_breaking_footer(content) ==
    LET breaking_indices == {idx \in DOMAIN content : is_breaking_line(content[idx])}
        line     == trim_end(IF Len(content) = 0 THEN <<>> ELSE content[Len(content)])
        note_raw == strip_prefix_or(trim_start(line), BREAKING_CHANGE, <<>>)
        note     == trim(strip_prefix_or(note_raw, <<" ">>, note_raw))
    IN  IF breaking_indices = {} THEN Ok([body_lines |-> content, breaking_note |-> None])
        ELSE IF Cardinality(breaking_indices) # 1 \/ breaking_indices # {Len(content)}
             THEN Err(E("MessageBreakingFooterNotLast"))
        ELSE IF is_empty(note) THEN Err(E("BreakingNoteEmpty"))
        ELSE IF Len(content) = 1
             THEN Ok([body_lines |-> <<>>, breaking_note |-> Some(note)])
        ELSE IF ~is_empty(trim(content[Len(content) - 1]))
             THEN Err(E("MessageBreakingFooterNotLast"))
        ELSE Ok([body_lines |-> SubSeq(content, 1, Len(content) - 2),
                 breaking_note |-> Some(note)])

\* has_non_empty_body
has_non_empty_body(body_lines) ==
    \E k \in DOMAIN body_lines : ~is_empty(trim(body_lines[k]))

\* validate_commit_message: the lines that are not comments
strip_comments(ls) == SelectSeq(ls, LAMBDA l : ~starts_with(l, <<"#">>))

\* validate_commit_message: without the leading and trailing blank lines
trim_blank_lines(ls) ==
    LET keep == {k \in DOMAIN ls : ~is_empty(trim(ls[k]))}
    IN  IF keep = {} THEN <<>> ELSE SubSeq(ls, Min(keep), Max(keep))

\* the lines of a message, trimmed of blank lines before the comments go
message_lines_trim_first(raw_message) ==
    strip_comments(trim_blank_lines(lines(raw_message)))

\* validate_commit_message: the lines the message is judged by
message_lines(raw_message) == trim_blank_lines(strip_comments(lines(raw_message)))

\* validate_commit_message, the autosquash branch
validate_autosquash(subject_line) ==
    LET split == split_once(subject_line, <<" ">>)
        rest  == IF split.some THEN trim(split.v[2]) ELSE <<>>
    IN  IF is_empty(rest) THEN InvalidFormat(subject_line) ELSE Ok(<<>>)

\* the end of a message after its subject, without the check of the bang
validate_subject_only_unchecked(p) == Ok(<<>>)

\* validate_commit_message, the checks made when nothing follows the subject
\* or the blank line after it
validate_subject_only(p) ==
    IF p.has_bang THEN Err(E("MessageBangWithoutBreakingFooter")) ELSE Ok(<<>>)

\* validate_commit_message, from the reconstruction of the subject on
validate_reconstruct(p, breaking_note) ==
    LET scope == IF p.scope.some THEN CommitScope_from_str(p.scope.v) ELSE Ok(<<>>)
        note  == IF breaking_note.some THEN BreakingNote_from_str(breaking_note.v)
                 ELSE Ok(<<>>)
    IN  IF is_err(scope) THEN scope
        ELSE IF is_err(note) THEN note
        ELSE LET subject ==
                   CommitSubject_new(p.commit_type,
                                     IF p.scope.some THEN Some(scope.v) ELSE None,
                                     p.summary,
                                     IF breaking_note.some THEN Some(note.v) ELSE None)
             IN  IF is_err(subject) THEN subject ELSE Ok(<<>>)

\* validate_commit_message, from the footer split on
validate_content(p, content) ==
    LET split == split_body_and_breaking_footer(content)
    IN  IF is_err(split) THEN split
        ELSE
        LET body_lines    == split.v.body_lines
            breaking_note == split.v.breaking_note
            note == IF breaking_note.some THEN BreakingNote_from_str(breaking_note.v)
                    ELSE Ok(<<>>)
            body == IF has_non_empty_body(body_lines)
                    THEN CommitBody_from_str(join(body_lines, <<"\n">>))
                    ELSE Ok(<<>>)
        IN  IF breaking_note.some /\ ~p.has_bang
            THEN Err(E("MessageBreakingFooterMissingBang"))
            ELSE IF breaking_note.some /\ is_err(note) THEN note
            ELSE IF ~breaking_note.some /\ p.has_bang
                 THEN Err(E("MessageBangWithoutBreakingFooter"))
            ELSE IF is_err(body) THEN body
            ELSE validate_reconstruct(p, breaking_note)

\* validate_commit_message taking what follows the subject as the content
\* when no blank line follows it
validate_rest_unseparated(p, rest) ==
    IF Len(rest) = 0 THEN validate_subject_only(p)
    ELSE IF ~is_empty(trim(rest[1])) THEN validate_content(p, rest)
    ELSE IF Len(rest) = 1 THEN validate_subject_only(p)
    ELSE validate_content(p, Tail(rest))

\* validate_commit_message, after the subject line is parsed and measured
validate_rest(p, rest) ==
    IF Len(rest) = 0 THEN validate_subject_only(p)
    ELSE IF ~is_empty(trim(rest[1]))
         THEN Err(E("MessageMissingBlankLineAfterSubject"))
    ELSE IF Len(rest) = 1 THEN validate_subject_only(p)
    ELSE validate_content(p, Tail(rest))

\* validate_commit_message
validate_commit_message(raw_message) ==
    LET ls == message_lines(raw_message)
    IN  IF Len(ls) = 0 THEN Err(E("MessageSubjectMissing"))
        ELSE
        LET subject_line == trim(ls[1])
            parsed       == parse_subject_line(subject_line)
        IN  IF is_autosquash_subject(subject_line)
            THEN validate_autosquash(subject_line)
            ELSE IF is_err(parsed) THEN parsed
            ELSE LET measured == validate_subject_length(subject_line,
                                                         parsed.v.summary)
                 IN  IF is_err(measured) THEN measured
                     ELSE validate_rest(parsed.v, Tail(ls))

-----------------------------------------------------------------------------
(* Inputs.  A caller hands an operation its arguments (Init draws them)    *)
(* and reads back the result; pc says how far the call has got.            *)

\* the text of n characters c
Rep(c, n) == [i \in 1..n |-> c]

\* the sequences of at most n elements of A
SeqsUpTo(A, n) == UNION {[1..k -> A] : k \in 0..n}

NoValue == [none |-> TRUE]

-----------------------------------------------------------------------------
(* SpecSummary: CommitSummary::from_str on every short text, and again on  *)
(* the text of the summary it made.                                        *)

MaxSummaryLen == 4

SummaryChars == {"a", ".", " ", "\t", "\n", "\r"}

InitSummary ==
    /\ pc = "call"
    /\ input \in SeqsUpTo(SummaryChars, MaxSummaryLen)
    /\ value = NoValue
    /\ result = NoValue

MakeSummary ==
    /\ pc = "call"
    /\ result' = CommitSummary_from_str(input)
    /\ value' = IF is_ok(result') THEN result'.v ELSE NoValue
    /\ pc' = "made"
    /\ UNCHANGED input

RemakeSummary ==
    /\ pc = "made"
    /\ is_ok(result)
    /\ result' = CommitSummary_from_str(value)
    /\ pc' = "remade"
    /\ UNCHANGED <<input, value>>

NextSummary == MakeSummary \/ RemakeSummary

SpecSummary == InitSummary /\ [][NextSummary]_vars

\* a text with its leading whitespace dropped, every other whitespace run
\* that a character follows made one space, and a trailing run dropped
RECURSIVE Collapsed(_, _)
Collapsed(s, started) ==
    IF Len(s) = 0 THEN <<>>
    ELSE IF s[1] \notin White_Space THEN <<s[1]>> \o Collapsed(Tail(s), TRUE)
    ELSE IF started /\ Len(s) > 1 /\ s[2] \notin White_Space
         THEN <<" ">> \o Collapsed(Tail(s), TRUE)
    ELSE Collapsed(Tail(s), started)

\* the text between the first and the last character that is not whitespace
Inner(s) ==
    LET solid == {i \in DOMAIN s : s[i] \notin White_Space}
    IN  IF solid = {} THEN <<>> ELSE SubSeq(s, Min(solid), Max(solid))

\* a summary as the data model describes it
WellFormedSummary(s) ==
    /\ Len(s) > 0
    /\ \A i \in DOMAIN s : s[i] \in White_Space => s[i] = " "
    /\ s[1] # " " /\ s[Len(s)] # " "
    /\ \A i \in 1..(Len(s) - 1) : ~(s[i] = " " /\ s[i + 1] = " ")
    /\ s[Len(s)] # "."

\* C8: CommitSummary::from_str checks, in this order, that the trimmed text
\* is not empty (SummaryEmpty), that it holds no CR or LF (SummaryMultiline)
\* and that the collapsed text does not end with '.' (SummaryEndsWithPeriod),
\* and otherwise succeeds with the collapsed text; so every summary made is
\* non-empty, single-line, without leading, trailing or repeated whitespace
\* and without a final '.', and making it again from its text gives it back.
C8_SummaryChecks ==
    /\ pc = "made" =>
          LET inner == Inner(input)
              text  == Collapsed(input, FALSE)
          IN  result =
                IF inner = <<>> THEN Err(E("SummaryEmpty"))
                ELSE IF \E i \in DOMAIN inner : inner[i] \in {"\n", "\r"}
                     THEN Err(E("SummaryMultiline"))
                ELSE IF text[Len(text)] = "."
                     THEN Err(E("SummaryEndsWithPeriod"))
                ELSE Ok(text)
    /\ pc = "made" /\ is_ok(result) => WellFormedSummary(result.v)
    /\ pc = "remade" => result = Ok(value)

\* a text with a run of two whitespace characters inside became a summary
C8_Witness ==
    /\ pc = "remade"
    /\ Len(input) = 4 /\ input[2] = " " /\ input[3] = "\t"
    /\ result = Ok(<<input[1], " ", input[4]>>)

-----------------------------------------------------------------------------
(* SpecBody: CommitBody::from_str on texts of a few lines, each short, or  *)
(* about as long as the limit in characters or in bytes.                   *)

MaxBodyLines == 2

BodyLineLens ==
    {1, BODY_LINE_MAX_LEN \div 2, BODY_LINE_MAX_LEN \div 2 + 1,
     BODY_LINE_MAX_LEN, BODY_LINE_MAX_LEN + 1}

BodyLines ==
    {<<>>, <<" ">>} \cup {Rep(c, n) : c \in {"a", EAcute}, n \in BodyLineLens}

BodyTexts == {join(ls, <<"\n">>) : ls \in SeqsUpTo(BodyLines, MaxBodyLines)}

InitBody ==
    /\ pc = "call"
    /\ input \in BodyTexts
    /\ value = NoValue
    /\ result = NoValue

MakeBody ==
    /\ pc = "call"
    /\ result' = CommitBody_from_str(input)
    /\ value' = IF is_ok(result') THEN result'.v ELSE NoValue
    /\ pc' = "made"
    /\ UNCHANGED input

RemakeBody ==
    /\ pc = "made"
    /\ is_ok(result)
    /\ result' = CommitBody_from_str(value)
    /\ pc' = "remade"
    /\ UNCHANGED <<input, value>>

NextBody == MakeBody \/ RemakeBody

SpecBody == InitBody /\ [][NextBody]_vars

\* the length of a line in characters
char_count(s) == Len(s)

\* C7: CommitBody::from_str returns BodyEmpty iff the text is empty after
\* trimming; otherwise BodyLineTooLong{len, line} iff a line of the trimmed
\* text has more than 72 characters, line being the first such line and len
\* its length in characters; otherwise it succeeds with the trimmed text.
C7_BodyChecks ==
    pc = "made" =>
        LET text == Inner(input)
            ls   == lines(text)
            long == {k \in DOMAIN ls : char_count(ls[k]) > 72}
        IN  result =
              IF text = <<>> THEN Err(E("BodyEmpty"))
              ELSE IF long # {}
                   THEN Err([kind |-> "BodyLineTooLong",
                             len  |-> char_count(ls[Min(long)]),
                             line |-> ls[Min(long)]])
              ELSE Ok(text)

-----------------------------------------------------------------------------
(* SpecSubject: the value types are made from raw arguments, then          *)
(* CommitSubject::new assembles them.  The summaries and scopes run up to  *)
(* MaxFill characters, so the subjects fall on both sides of the limit.    *)

MaxFill == 48

SummaryArgs ==
    {Rep("a", n) : n \in 1..MaxFill}
        \cup {Rep(EAcute, n) : n \in (MaxFill \div 2 - 2)..(MaxFill \div 2)}
        \cup {<<"a", " ", " ", "a">>, <<" ", "a", "p", "i">>, <<"a", ".">>}

ScopeArgs ==
    {None} \cup {Some(s) : s \in {<<"a", "p", "i">>, <<" ", "a", "a", "a", " ">>,
                                  Rep("a", MaxFill - 3), <<"a", ")">>}}

NoteArgs == {None, Some(<<" ", "n">>)}

\* what a made optional argument is handed on as
optional_value(arg, made) == IF arg.some THEN Some(made.v) ELSE None

InitSubject ==
    /\ pc = "call"
    /\ input \in [commit_type : {CommitType[k] : k \in DOMAIN CommitType},
                  scope : ScopeArgs, summary : SummaryArgs, note : NoteArgs]
    /\ value = NoValue
    /\ result = NoValue

MakeSubjectParts ==
    /\ pc = "call"
    /\ LET scope   == IF input.scope.some THEN CommitScope_from_str(input.scope.v)
                      ELSE Ok(<<>>)
           summary == CommitSummary_from_str(input.summary)
           note    == IF input.note.some THEN BreakingNote_from_str(input.note.v)
                      ELSE Ok(<<>>)
       IN  IF is_ok(scope) /\ is_ok(summary) /\ is_ok(note)
           THEN /\ value' = [commit_type |-> input.commit_type,
                             scope   |-> optional_value(input.scope, scope),
                             summary |-> summary.v,
                             note    |-> optional_value(input.note, note)]
                /\ pc' = "made"
           ELSE /\ value' = NoValue
                /\ pc' = "rejected"
    /\ UNCHANGED <<input, result>>

NewSubject ==
    /\ pc = "made"
    /\ result' = CommitSubject_new(value.commit_type, value.scope, value.summary,
                                   value.note)
    /\ pc' = "done"
    /\ UNCHANGED <<input, value>>

NextSubject == MakeSubjectParts \/ NewSubject

SpecSubject == InitSubject /\ [][NextSubject]_vars

\* the places of the occurrences of a pattern of n characters that a scan
\* from the left removes: the first one at or after from, then on from its end
RECURSIVE Removed(_, _, _)
Removed(occ, from, n) ==
    LET next == {o \in occ : o >= from}
    IN  IF next = {} THEN {}
        ELSE {Min(next)} \cup Removed(occ, Min(next) + n, n)

\* s with every occurrence of pat removed
WithoutEvery(s, pat) ==
    LET gone == Removed(occurrences(s, pat), 1, Len(pat))
        kept == {i \in DOMAIN s : \A o \in gone : i < o \/ i >= o + Len(pat)}
    IN  [k \in 1..Cardinality(kept) |-> s[sorted(kept)[k]]]

\* the subject text of the made parts: type(scope)B: summary or typeB: summary
SubjectText(v) ==
    LET B == IF v.note.some THEN <<"!">> ELSE <<>>
        S == IF v.scope.some THEN <<"(">> \o v.scope.v \o <<")">> ELSE <<>>
    IN  as_str(v.commit_type) \o S \o B \o <<":", " ">> \o v.summary

-----------------------------------------------------------------------------
(* SpecSplit: split_body_and_breaking_footer on every non-empty content of *)
(* a few lines (the validator never calls it with an empty content).       *)

MaxContentLines == 3

ContentLines ==
    {<<>>, <<" ">>, <<"b">>,
     BREAKING_CHANGE,
     BREAKING_CHANGE \o <<" ">>,
     BREAKING_CHANGE \o <<"n">>,
     BREAKING_CHANGE \o <<" ", "n">>,
     <<" ", " ">> \o BREAKING_CHANGE \o <<" ", " ", "n", " ", "m", " ">>,
     <<"b", " ">> \o BREAKING_CHANGE \o <<" ", "n">>}

InitSplit ==
    /\ pc = "call"
    /\ input \in SeqsUpTo(ContentLines, MaxContentLines) \ {<<>>}
    /\ value = NoValue
    /\ result = NoValue

Split ==
    /\ pc = "call"
    /\ result' = split_body_and_breaking_footer(input)
    /\ pc' = "done"
    /\ UNCHANGED <<input, value>>

NextSplit == Split

SpecSplit == InitSplit /\ [][NextSplit]_vars

\* a line is whitespace-only
Blank(line) == \A i \in DOMAIN line : line[i] \in White_Space

\* a line without its leading whitespace
LeftTrimmed(line) ==
    LET solid == {i \in DOMAIN line : line[i] \notin White_Space}
    IN  IF solid = {} THEN <<>> ELSE SubSeq(line, Min(solid), Len(line))

\* the left-trimmed text of a line starts with BREAKING CHANGE:
FooterLine(line) ==
    LET l == LeftTrimmed(line)
    IN  Len(l) >= 16 /\ SubSeq(l, 1, 16) = <<"B", "R", "E", "A", "K", "I", "N", "G", " ", "C", "H", "A", "N", "G", "E", ":">>

\* the trimmed text after the prefix of a footer line
FooterNote(line) == Inner(SubSeq(LeftTrimmed(line), 17, Len(LeftTrimmed(line))))

\* C10: with no footer line in the content the body is the whole content and
\* there is no note.  Otherwise the result is MessageBreakingFooterNotLast
\* unless exactly one footer line exists and it is the last line; then an
\* empty note gives BreakingNoteEmpty; then, in a content of more than one
\* line, a line before the footer that is not whitespace-only gives
\* MessageBreakingFooterNotLast; on success the body is the content without
\* its last two lines (empty when the footer is the only line) and the note
\* is the trimmed text after the prefix.
C10_FooterPlacement ==
    pc = "done" =>
        LET n       == Len(input)
            footers == {k \in 1..n : FooterLine(input[k])}
        IN  result =
              IF footers = {}
              THEN Ok([body_lines |-> input, breaking_note |-> None])
              ELSE IF footers # {n} THEN Err(E("MessageBreakingFooterNotLast"))
              ELSE IF FooterNote(input[n]) = <<>> THEN Err(E("BreakingNoteEmpty"))
              ELSE IF n > 1 /\ ~Blank(input[n - 1])
                   THEN Err(E("MessageBreakingFooterNotLast"))
              ELSE Ok([body_lines |-> IF n = 1 THEN <<>> ELSE SubSeq(input, 1, n - 2),
                       breaking_note |-> Some(FooterNote(input[n]))])

\* a body line, a blank line and an indented footer with a padded note
C10_Witness ==
    /\ pc = "done"
    /\ Len(input) = 3
    /\ is_ok(result)
    /\ result.v.body_lines = <<<<"b">>>>
    /\ result.v.breaking_note = Some(<<"n", " ", "m">>)

-----------------------------------------------------------------------------
(* Spec: validate_commit_message on raw messages: optional comment and     *)
(* blank lines, a subject line, and up to MaxRestLines further lines.      *)

MaxRestLines == 3

FIXUP == <<"f", "i", "x", "u", "p", "!", " ">>

SQUASH == <<"s", "q", "u", "a", "s", "h", "!", " ">>

AMEND == <<"a", "m", "e", "n", "d", "!", " ">>

ScopeTexts == {<<>>, <<"(", "a", "p", "i", ")">>, <<"(", ")">>,
               <<"(", "a", ")", "b", ")">>}

SummaryTexts == {<<"x">>, Rep("x", SUBJECT_MAX_LEN - 4)}

ConventionalSubjects ==
    {<<"f", "i", "x">> \o scope \o bang \o <<":", " ">> \o summary :
        scope \in ScopeTexts, bang \in {<<>>, <<"!">>}, summary \in SummaryTexts}

AutosquashSubjects ==
    {FIXUP \o <<"x">>, SQUASH \o <<"x">>, AMEND \o <<"x">>, FIXUP, FIXUP \o <<" ">>,
     FIXUP \o Rep("x", SUBJECT_MAX_LEN)}

OtherSubjects == {<<"f", "o", "o", ":", " ", "x">>, <<"f", "i", "x">>}

SubjectLines == ConventionalSubjects \cup AutosquashSubjects \cup OtherSubjects

RestLines ==
    {<<>>, <<"b">>, <<"#", "c">>, BREAKING_CHANGE, BREAKING_CHANGE \o <<" ", "n">>,
     Rep("b", BODY_LINE_MAX_LEN + 1)}

LeadLines == {<<>>, <<<<"#", "c">>, <<>>>>}

Messages ==
    {join(lead \o <<subject>> \o rest, <<"\n">>) :
        lead \in LeadLines, subject \in SubjectLines,
        rest \in SeqsUpTo(RestLines, MaxRestLines)}

Init ==
    /\ pc = "call"
    /\ input \in Messages
    /\ value = NoValue
    /\ result = NoValue

Validate ==
    /\ pc = "call"
    /\ result' = validate_commit_message(input)
    /\ pc' = "done"
    /\ UNCHANGED <<input, value>>

Next == Validate

Spec == Init /\ [][Next]_vars

\* the lines of a message that are left when the lines whose first character
\* is '#' are removed and then the whitespace-only lines at both ends
Remaining(text) ==
    LET kept  == SelectSeq(lines(text), LAMBDA l : l = <<>> \/ l[1] # "#")
        solid == {k \in DOMAIN kept : ~Blank(kept[k])}
    IN  IF solid = {} THEN <<>> ELSE SubSeq(kept, Min(solid), Max(solid))

\* a subject line carries an autosquash marker
Marked(line) ==
    \E m \in {FIXUP, SQUASH, AMEND} : Len(line) >= Len(m) /\ SubSeq(line, 1, Len(m)) = m

\* the text of s after the first place where pat occurs (s has one)
After(s, pat) == SubSeq(s, Min(occurrences(s, pat)) + Len(pat), Len(s))

\* the text of s before the first place where pat occurs (s has one)
Before(s, pat) == SubSeq(s, 1, Min(occurrences(s, pat)) - 1)

\* the subject line of a message whose remaining lines are ls (not none)
SubjectLine(ls) == Inner(ls[1])

\* the message has a subject line without autosquash marker that parses and
\* is at most 50 long
Conventional(ls) ==
    /\ ls # <<>>
    /\ ~Marked(SubjectLine(ls))
    /\ is_ok(parse_subject_line(SubjectLine(ls)))
    /\ str_len(SubjectLine(ls)) <= 50

\* the prefix of the subject line ends with '!'
Bang(ls) ==
    LET prefix == Inner(Before(SubjectLine(ls), <<":", " ">>))
    IN  prefix[Len(prefix)] = "!"

\* the lines after the line that follows the subject line
Content(ls) == SubSeq(ls, 3, Len(ls))

\* C2: every message accepted without autosquash marker has had each field
\* extracted from it accepted by its constructor: the type and the summary
\* (the subject line parses), a parenthesised scope by CommitScope, a
\* non-blank body by CommitBody and a footer note by BreakingNote; also a
\* message that is its subject line only.
C2_AcceptedFieldsValid ==
    LET ls == Remaining(input)
    IN  (pc = "done" /\ is_ok(result) /\ ~Marked(SubjectLine(ls))) =>
          LET parsed == parse_subject_line(SubjectLine(ls))
              split  == split_body_and_breaking_footer(Content(ls))
          IN  /\ is_ok(parsed)
              /\ parsed.v.scope.some => is_ok(CommitScope_from_str(parsed.v.scope.v))
              /\ is_ok(split)
              /\ (\E k \in DOMAIN split.v.body_lines : ~Blank(split.v.body_lines[k]))
                    => is_ok(CommitBody_from_str(join(split.v.body_lines, <<"\n">>)))
              /\ split.v.breaking_note.some
                    => is_ok(BreakingNote_from_str(split.v.breaking_note.v))

\* the content holds one footer line, the last, with a note, after a
\* whitespace-only line if it is not the only line
WellPlacedFooter(content) ==
    LET n == Len(content)
    IN  /\ {k \in 1..n : FooterLine(content[k])} = {n}
        /\ n >= 1
        /\ FooterNote(content[n]) # <<>>
        /\ n > 1 => Blank(content[n - 1])

\* nothing follows the subject line, or a whitespace-only line does
Separated(ls) == Len(ls) = 1 \/ Blank(ls[2])

C5_MissingBlankLineFirst ==
    LET ls == Remaining(input)
    IN  (pc = "done" /\ Conventional(ls) /\ Len(ls) >= 2 /\ ~Blank(ls[2]))
            => result = Err(E("MessageMissingBlankLineAfterSubject"))

\* the subject has a '!' and a scope CommitScope rejects, a footer without a
\* note follows it at once, and a body line that is too long ends the message
C5_Witness ==
    LET ls == Remaining(input)
    IN  /\ pc = "done" /\ Conventional(ls) /\ Bang(ls)
        /\ parse_subject_line(SubjectLine(ls)).v.scope = Some(<<"a", ")", "b">>)
        /\ is_err(CommitScope_from_str(<<"a", ")", "b">>))
        /\ Len(ls) = 3
        /\ ls[2] = BREAKING_CHANGE
        /\ Len(ls[3]) > 72
        /\ result = Err(E("MessageMissingBlankLineAfterSubject"))

\* C6: when the subject line starts with fixup! , squash! or amend! and the
\* text after its first space is not empty (trimmed), the message is accepted
\* whatever follows and however long the subject is; when that text is empty
\* the result is MessageSubjectInvalidFormat.
C6_AutosquashShortcut ==
    LET ls == Remaining(input)
    IN  (pc = "done" /\ ls # <<>> /\ Marked(ls[1])) =>
          LET rest == Inner(After(ls[1], <<" ">>))
          IN  /\ rest # <<>> => result = Ok(<<>>)
              /\ rest = <<>> => (is_err(result)
                                 /\ result.e.kind = "MessageSubjectInvalidFormat")

\* a marked subject longer than 50 with a footer line right after it
C6_Witness ==
    LET ls == Remaining(input)
    IN  /\ pc = "done"
        /\ Len(ls) >= 2
        /\ Marked(ls[1])
        /\ str_len(ls[1]) > 50
        /\ FooterLine(ls[2])
        /\ result = Ok(<<>>)

-----------------------------------------------------------------------------
(* SpecComments: a message is edited by putting in and taking out comment  *)
(* lines and by adding whitespace-only lines at its ends; then the message *)
(* as it was and the message as edited are both validated.                 *)

MaxEdits == 2

FIX_X == <<"f", "i", "x", ":", " ", "x">>

FIX_BANG_X == <<"f", "i", "x", "!", ":", " ", "x">>

FOOTER_N == BREAKING_CHANGE \o <<" ", "n">>

BaseMessages ==
    {<<>>, <<<<"#", "c">>>>, <<<<" ">>>>, <<<<>>, <<"#", "c">>, FIX_X>>}
        \cup {<<subject>> \o rest :
                subject \in {FIX_X, FIX_BANG_X},
                rest \in {<<>>, <<<<"b">>>>, <<<<>>, <<"b">>>>, <<<<>>, FOOTER_N>>,
                          <<<<"#", "c">>, <<>>, FOOTER_N>>,
                          <<<<>>, <<"b">>, <<>>, FOOTER_N>>,
                          <<<<>>, <<"b">>, FOOTER_N>>}}

CommentLines == {<<"#">>, <<"#", " ">> \o FOOTER_N}

BlankLines == {<<>>, <<" ", "\t">>}

\* the text of a message of the given lines
text_of(ls) == join(ls, <<"\n">>)

\* ls with line put in after its first k lines
with_line(ls, k, line) == SubSeq(ls, 1, k) \o <<line>> \o SubSeq(ls, k + 1, Len(ls))

\* ls without its k-th line
without_line(ls, k) == SubSeq(ls, 1, k - 1) \o SubSeq(ls, k + 1, Len(ls))

InitComments ==
    /\ pc = "edit"
    /\ input \in BaseMessages
    /\ value = [lines |-> input, edits |-> 0]
    /\ result = NoValue

InsertComment ==
    /\ pc = "edit"
    /\ value.edits < MaxEdits
    /\ \E k \in 0..Len(value.lines), line \in CommentLines :
          value' = [lines |-> with_line(value.lines, k, line),
                    edits |-> value.edits + 1]
    /\ UNCHANGED <<pc, input, result>>

DeleteComment ==
    /\ pc = "edit"
    /\ value.edits < MaxEdits
    /\ \E k \in DOMAIN value.lines :
          /\ starts_with(value.lines[k], <<"#">>)
          /\ value' = [lines |-> without_line(value.lines, k),
                       edits |-> value.edits + 1]
    /\ UNCHANGED <<pc, input, result>>

AddBlankLine ==
    /\ pc = "edit"
    /\ value.edits < MaxEdits
    /\ \E k \in {0, Len(value.lines)}, line \in BlankLines :
          value' = [lines |-> with_line(value.lines, k, line),
                    edits |-> value.edits + 1]
    /\ UNCHANGED <<pc, input, result>>

ValidateBoth ==
    /\ pc = "edit"
    /\ result' = [before |-> validate_commit_message(text_of(input)),
                  after  |-> validate_commit_message(text_of(value.lines))]
    /\ pc' = "done"
    /\ UNCHANGED <<input, value>>

NextComments == InsertComment \/ DeleteComment \/ AddBlankLine \/ ValidateBoth

SpecComments == InitComments /\ [][NextComments]_vars

\* C9: the result depends only on what remains when the lines whose first
\* character is '#' are removed and then the whitespace-only lines at both
\* ends: putting in or taking out '#' lines anywhere and adding whitespace-
\* only lines at the ends does not change it, and a message of which nothing
\* remains gives MessageSubjectMissing.
C9_CommentsAndBlankEdges ==
    pc = "done" =>
        /\ result.after = result.before
        /\ Remaining(text_of(value.lines)) = <<>>
              => result.after = Err(E("MessageSubjectMissing"))

\* a comment was put between the subject and the blank line after it, and a
\* blank line before a leading comment; the message is accepted as before
C9_Witness ==
    /\ pc = "done"
    /\ input = <<FIX_BANG_X, <<>>, FOOTER_N>>
    /\ value.lines = <<<<>>, FIX_BANG_X, <<"#">>, <<>>, FOOTER_N>>
    /\ result.after = Ok(<<>>)

-----------------------------------------------------------------------------
(* SpecRoundTrip: the value types are made from raw arguments, the subject *)
(* is assembled, the message composed and the composed message validated.  *)

MaxRoundTripFill == 40

RoundTripScopes ==
    {None} \cup {Some(s) : s \in {<<"a", "p", "i">>, <<"a", ":", " ", "b">>,
                                  <<"a", "(", "b">>}}

RoundTripSummaries ==
    {<<"x">>, <<"x", ":", " ", "y">>, <<"a", " ", " ", "b">>}
        \cup {Rep("x", n) : n \in (MaxRoundTripFill - 1)..MaxRoundTripFill}

RoundTripBodies ==
    {None} \cup {Some(b) : b \in {<<"b">>, <<"b", "\n", "\n", " ", "c", "\n">>,
                                  <<"#", "c">>, FOOTER_N,
                                  <<"b", "\n">> \o FOOTER_N \o <<"\n", "c">>,
                                  Rep(EAcute, BODY_LINE_MAX_LEN \div 2)}}

RoundTripNotes == {None, Some(<<"n">>), Some(<<" ", "n", " ", "m", " ">>)}

InitRoundTrip ==
    /\ pc = "call"
    /\ input \in [commit_type : {CommitType[k] : k \in DOMAIN CommitType},
                  scope : RoundTripScopes, summary : RoundTripSummaries,
                  body : RoundTripBodies, note : RoundTripNotes]
    /\ value = NoValue
    /\ result = NoValue

MakeParts ==
    /\ pc = "call"
    /\ LET scope   == IF input.scope.some THEN CommitScope_from_str(input.scope.v)
                      ELSE Ok(<<>>)
           summary == CommitSummary_from_str(input.summary)
           body    == IF input.body.some THEN CommitBody_from_str(input.body.v)
                      ELSE Ok(<<>>)
           note    == IF input.note.some THEN BreakingNote_from_str(input.note.v)
                      ELSE Ok(<<>>)
           subject == CommitSubject_new(input.commit_type,
                                        optional_value(input.scope, scope),
                                        summary.v,
                                        optional_value(input.note, note))
       IN  IF is_ok(scope) /\ is_ok(summary) /\ is_ok(body) /\ is_ok(note)
              /\ is_ok(subject)
           THEN /\ value' = [subject |-> subject.v,
                             body    |-> optional_value(input.body, body),
                             note    |-> optional_value(input.note, note)]
                /\ pc' = "made"
           ELSE /\ value' = NoValue
                /\ pc' = "rejected"
    /\ UNCHANGED <<input, result>>

Compose ==
    /\ pc = "made"
    /\ value' = [message |-> new_commit_message(value.subject, value.body, value.note)]
    /\ pc' = "composed"
    /\ UNCHANGED <<input, result>>

ValidateComposed ==
    /\ pc = "composed"
    /\ result' = validate_commit_message(value.message)
    /\ pc' = "validated"
    /\ UNCHANGED <<input, value>>

NextRoundTrip == MakeParts \/ Compose \/ ValidateComposed

SpecRoundTrip == InitRoundTrip /\ [][NextRoundTrip]_vars

\* C1: the message composed of a subject made by CommitSubject::new, an
\* optional made body and the note the subject was made with is accepted by
\* validate_commit_message.
C1_RoundTrip == pc = "validated" => result = Ok(<<>>)

=============================================================================
